---- MODULE Spec2Model ----
(***************************************************************************)
(* Model of the recipe scraper service (app.py): the ingredient parser     *)
(* parse_ingredient, the yield normaliser format_yields, the accessor      *)
(* wrapper safe_call and the /scrape request handler.                      *)
(*                                                                         *)
(* Python strings are sequences of one-character strings, so that the      *)
(* regular expressions of the source can be modelled character by          *)
(* character.  The two accented letters of the unit table are written as   *)
(* the character tokens "a_grave" and "a_acute".                           *)
(***************************************************************************)
EXTENDS Integers, Sequences, FiniteSets, TLC

VARIABLES
  pc,               \* position of the running operation
  ingredient_text,  \* argument of parse_ingredient
  parsed,           \* value returned by parse_ingredient(ingredient_text)
  rule,             \* number of the pattern whose branch returned it (0: none)
  reparsed,         \* value returned by parse_ingredient on the rebuilt line
  yields_value,     \* argument of format_yields
  yields_out,       \* value returned by format_yields(yields_value)
  request,          \* the HTTP request received by the service
  scraper,          \* behaviour of the extraction library for the request
  response,         \* the HTTP response produced by the service
  log               \* number of records written by logging.error / warning

vars ==
  <<pc, ingredient_text, parsed, rule, reparsed, yields_value, yields_out,
    request, scraper, response, log>>

----------------------------------------------------------------------------
(* Python values *)

PyStr(s) == [type |-> "str", s |-> s]

PyInt(n) == [type |-> "int", v |-> n]

PyNone == [type |-> "NoneType"]

PyList(items) == [type |-> "list", items |-> items]

\* Python truthiness: `not x` is true of None, 0, "" and [].
falsy(x) ==
  \/ x.type = "NoneType"
  \/ x.type = "int" /\ x.v = 0
  \/ x.type = "str" /\ x.s = <<>>
  \/ x.type = "list" /\ x.items = <<>>

NA == PyStr(<<"N", "/", "A">>)

----------------------------------------------------------------------------
(* Characters, str.strip() and the character classes of module re *)

\* Characters matched by \s and removed by str.strip().
whitespace == {" ", "\t", "\n", "\r"}

\* The class [0-9\/\-.,] of the quantity patterns.
numeral == {"0", "1", "2", "3", "4", "5", "6", "7", "8", "9", "/", "-", ".", ","}

\* The class \d.
digit == {"0", "1", "2", "3", "4", "5", "6", "7", "8", "9"}

\* Case folding of one character, as re.IGNORECASE compares letters.
lower(c) ==
  CASE c = "A" -> "a" [] c = "B" -> "b" [] c = "C" -> "c" [] c = "D" -> "d"
    [] c = "E" -> "e" [] c = "F" -> "f" [] c = "G" -> "g" [] c = "H" -> "h"
    [] c = "I" -> "i" [] c = "J" -> "j" [] c = "K" -> "k" [] c = "L" -> "l"
    [] c = "M" -> "m" [] c = "N" -> "n" [] c = "O" -> "o" [] c = "P" -> "p"
    [] c = "Q" -> "q" [] c = "R" -> "r" [] c = "S" -> "s" [] c = "T" -> "t"
    [] c = "U" -> "u" [] c = "V" -> "v" [] c = "W" -> "w" [] c = "X" -> "x"
    [] c = "Y" -> "y" [] c = "Z" -> "z"
    [] c = "A_grave" -> "a_grave" [] c = "A_acute" -> "a_acute"
    [] OTHER -> c

casefold(s) == [i \in 1..Len(s) |-> lower(s[i])]

Max(S) == CHOOSE x \in S : \A y \in S : y <= x

Min(S) == CHOOSE x \in S : \A y \in S : x <= y

\* Length of the longest run of characters of class C that starts at s[p].
RECURSIVE run(_, _, _)
run(s, p, C) == IF p > Len(s) \/ s[p] \notin C THEN 0 ELSE 1 + run(s, p + 1, C)

\* str.strip(): s without its leading and trailing whitespace.
strip(s) ==
  LET keep == {i \in 1..Len(s) : s[i] \notin whitespace}
  IN  IF keep = {} THEN <<>> ELSE SubSeq(s, Min(keep), Max(keep))

\* "." matches every character but the line feed: s[p..q] is matched by .*
no_newline(s, p, q) == \A i \in p..q : s[i] # "\n"

\* The word w occurs in s at position p.
word_at(s, p, w) == p + Len(w) - 1 <= Len(s) /\ SubSeq(s, p, p + Len(w) - 1) = w

----------------------------------------------------------------------------
(* The unit vocabulary: every word of each alternation, in the order the   *)
(* regular expression engine tries them (an optional letter is tried       *)
(* present before absent).                                                 *)

units ==
  <<
    <<"c", "u", "p", "s">>, <<"c", "u", "p">>,
    <<"t", "a", "b", "l", "e", "s", "p", "o", "o", "n", "s">>,
    <<"t", "a", "b", "l", "e", "s", "p", "o", "o", "n">>, <<"t", "b", "s", "p", "s">>,
    <<"t", "b", "s", "p">>, <<"t", "e", "a", "s", "p", "o", "o", "n", "s">>,
    <<"t", "e", "a", "s", "p", "o", "o", "n">>, <<"t", "s", "p", "s">>, <<"t", "s", "p">>,
    <<"g", "r", "a", "m", "s">>, <<"g", "r", "a", "m">>, <<"g">>, <<"k", "g">>, <<"m", "g">>,
    <<"m", "l">>, <<"l">>, <<"c", "l">>, <<"d", "l">>, <<"o", "z">>, <<"l", "b", "s">>,
    <<"l", "b">>, <<"p", "o", "u", "n", "d", "s">>, <<"p", "o", "u", "n", "d">>,
    <<"t", "a", "z", "z", "a">>, <<"t", "a", "z", "z", "e">>,
    <<"c", "u", "c", "c", "h", "i", "a", "i", "o">>,
    <<"c", "u", "c", "c", "h", "i", "a", "i", "i">>,
    <<"c", "u", "c", "c", "h", "i", "a", "i">>,
    <<"c", "u", "c", "c", "h", "i", "a", "i", "n", "i">>,
    <<"c", "u", "c", "c", "h", "i", "a", "i", "n">>, <<"p", "i", "z", "z", "i", "c", "o">>,
    <<"p", "i", "z", "z", "i", "c", "i">>, <<"q", ".", "b", ".">>, <<"q", ".", "b">>,
    <<"q", "b", ".">>, <<"q", "b">>, <<"p", "e", "z", "z", "o">>, <<"p", "e", "z", "z", "i">>,
    <<"f", "e", "t", "t", "a">>, <<"f", "e", "t", "t", "e">>,
    <<"s", "p", "i", "c", "c", "h", "i", "o">>, <<"s", "p", "i", "c", "c", "h", "i", "i">>,
    <<"s", "p", "i", "c", "c", "h", "i">>, <<"f", "o", "g", "l", "i", "e">>,
    <<"f", "o", "g", "l", "i">>, <<"r", "a", "m", "e", "t", "t", "o">>,
    <<"r", "a", "m", "e", "t", "t", "i">>, <<"r", "a", "m", "e", "t", "t">>,
    <<"m", "a", "n", "c", "i", "a", "t", "a">>, <<"m", "a", "n", "c", "i", "a", "t", "e">>,
    <<"m", "a", "z", "z", "o">>, <<"m", "a", "z", "z", "i">>, <<"u", "n", "i", "t", "a_grave">>,
    <<"u", "n", "i", "t", "a_acute">>, <<"p", "z", ".">>, <<"p", "z">>, <<"n", ".">>, <<"n">>,
    <<"c", "l", "o", "v", "e", "s">>, <<"c", "l", "o", "v", "e">>,
    <<"p", "i", "n", "c", "h", "e", "s">>, <<"p", "i", "n", "c", "h", "e">>,
    <<"p", "i", "e", "c", "e", "s">>, <<"p", "i", "e", "c", "e">>,
    <<"s", "l", "i", "c", "e", "s">>, <<"s", "l", "i", "c", "e">>
  >>

special_units ==
  <<
    <<"q", ".", "b", ".">>, <<"q", ".", "b">>, <<"q", "b", ".">>, <<"q", "b">>,
    <<"p", "i", "z", "z", "i", "c", "o">>, <<"p", "i", "z", "z", "i", "c", "i">>,
    <<"m", "a", "n", "c", "i", "a", "t", "a">>, <<"m", "a", "n", "c", "i", "a", "t", "e">>,
    <<"m", "a", "z", "z", "o">>, <<"m", "a", "z", "z", "i">>
  >>

unit_words == {units[j] : j \in DOMAIN units}

special_words == {special_units[j] : j \in DOMAIN special_units}

----------------------------------------------------------------------------
(* The four regular expressions of parse_ingredient.  Each matcher returns *)
(* [ok, g1, g2]: whether re.match succeeds and the two captured groups of  *)
(* the first match in the engine's backtracking order.  lt is the text     *)
(* case-folded (re.IGNORECASE); groups are cut from the text as written.   *)

no_match == [ok |-> FALSE, g1 |-> <<>>, g2 |-> <<>>]

\* [0-9\/\-.,]+\s*(?:units)$ matches lt from position p to the end.
quantity_tail(lt, p) ==
  \E a \in 1..run(lt, p, numeral) :
    \E b \in 0..run(lt, p + a, whitespace) :
      SubSeq(lt, p + a + b, Len(lt)) \in unit_words

\* Variant of special_tail with the marker written "qb" without its optional
\* dots: only the undotted spelling is a special marker.
special_tail_qb_only(lt, p) ==
  SubSeq(lt, p, Len(lt)) \in special_words \ {<<"q", ".", "b", ".">>, <<"q", ".", "b">>, <<"q", "b", ".">>}

\* (?:special_units)$ matches lt from position p to the end.
special_tail(lt, p) == SubSeq(lt, p, Len(lt)) \in special_words

\* ^(.+?)\s+(TAIL)$ : the lazy first group takes the fewest characters, the
\* greedy \s+ the most, for which TAIL matches the rest of the text.  TAIL
\* is the special-marker tail when special is TRUE, else the quantity tail.
end_match(text, special) ==
  LET lt == casefold(text)
      tail(s, p) == IF special THEN special_tail(s, p) ELSE quantity_tail(s, p)
      gap(i) == {k \in 1..run(text, i + 1, whitespace) : tail(lt, i + k + 1)}
      I == {i \in 1..(Len(text) - 2) : no_newline(text, 1, i) /\ gap(i) # {}}
  IN  IF I = {} THEN no_match
      ELSE LET i == Min(I)
               k == Max(gap(i))
           IN  [ok |-> TRUE, g1 |-> SubSeq(text, 1, i),
                g2 |-> SubSeq(text, i + k + 1, Len(text))]

\* quantity_at_end = ^(.+?)\s+([0-9\/\-.,]+\s*(?:units))$
quantity_at_end(text) == end_match(text, FALSE)

\* special_at_end = ^(.+?)\s+(special_units)$
special_at_end(text) == end_match(text, TRUE)

\* Variant of name_tail whose optional group is (?:\S+\s+)?: any first word
\* after the quantity is skipped, not only the connective.
name_tail_any_word(text, p) ==
  LET n == Len(text)
      rest_ok(q) == q <= n /\ no_newline(text, q, n)
      word(q) == Min({j \in q..(n + 1) : j = n + 1 \/ text[j] \in whitespace}) - q
      after_word(q) ==
        IF q <= n /\ word(q) > 0
        THEN {q + word(q) + e :
                e \in {e \in 1..run(text, q + word(q), whitespace) : rest_ok(q + word(q) + e)}}
        ELSE {}
      start(q) ==
        IF after_word(q) # {} THEN Max(after_word(q)) ELSE IF rest_ok(q) THEN q ELSE 0
      C == {c \in 1..run(text, p, whitespace) : start(p + c) # 0}
  IN  IF C = {} THEN 0 ELSE start(p + Max(C))

\* \s+(?:di\s+)?(.+)$ from position p: the position where the last group
\* starts, 0 when there is no match.  \s+ is greedy, the optional "di" group
\* is tried present before absent, and .+ must reach the end of the text.
name_tail(text, p) ==
  LET lt == casefold(text)
      n == Len(text)
      rest_ok(q) == q <= n /\ no_newline(text, q, n)
      after_di(q) ==
        IF word_at(lt, q, <<"d", "i">>)
        THEN {q + 2 + e : e \in {e \in 1..run(text, q + 2, whitespace) : rest_ok(q + 2 + e)}}
        ELSE {}
      start(q) ==
        IF after_di(q) # {} THEN Max(after_di(q)) ELSE IF rest_ok(q) THEN q ELSE 0
      C == {c \in 1..run(text, p, whitespace) : start(p + c) # 0}
  IN  IF C = {} THEN 0 ELSE start(p + Max(C))

\* special_quantity = ^(units)\s+(?:di\s+)?(.+)$
special_quantity(text) ==
  LET lt == casefold(text)
      J == {j \in DOMAIN units :
              word_at(lt, 1, units[j]) /\ name_tail(text, 1 + Len(units[j])) # 0}
  IN  IF J = {} THEN no_match
      ELSE LET u == Len(units[Min(J)])
           IN  [ok |-> TRUE, g1 |-> SubSeq(text, 1, u),
                g2 |-> SubSeq(text, name_tail(text, 1 + u), Len(text))]

\* quantity_at_start = ^([0-9\/\-.,]+\s*(?:units)?)\s+(?:di\s+)?(.+)$
\* Backtracking order: the longest numeral run, then the longest \s*, then
\* the unit alternatives in order, then no unit.
quantity_at_start(text) ==
  LET lt == casefold(text)
      unit_at(p) ==
        {j \in DOMAIN units : word_at(lt, p, units[j]) /\ name_tail(text, p + Len(units[j])) # 0}
      \* position after group 1 when the numeral takes a and \s* takes b characters
      group_end(a, b) ==
        IF unit_at(1 + a + b) # {} THEN a + b + Len(units[Min(unit_at(1 + a + b))])
        ELSE IF name_tail(text, 1 + a + b) # 0 THEN a + b
        ELSE 0
      B(a) == {b \in 0..run(text, 1 + a, whitespace) : group_end(a, b) # 0}
      A == {a \in 1..run(text, 1, numeral) : B(a) # {}}
  IN  IF A = {} THEN no_match
      ELSE LET a == Max(A)
               e == group_end(a, Max(B(a)))
           IN  [ok |-> TRUE, g1 |-> SubSeq(text, 1, e),
                g2 |-> SubSeq(text, name_tail(text, e + 1), Len(text))]

----------------------------------------------------------------------------
(* parse_ingredient *)

empty_ingredient == [quantity |-> <<>>, name |-> <<>>]

\* Variant of the length guard that compares with 1 instead of 2.
name_accepted_weak(name) == name # <<>> /\ Len(name) > 1

\* The length guard `if name and len(name) > 2`.
name_accepted(name) == name # <<>> /\ Len(name) > 2

\* Whether a pattern is taken: it matches and its stripped name passes the guard.
accepted(m, name_group) ==
  m.ok /\ name_accepted(strip(IF name_group = 1 THEN m.g1 ELSE m.g2))

\* Variant of parse_text that tries the two start patterns before the two
\* end patterns.
parse_text_start_first(text) ==
  LET m_end == quantity_at_end(text)
      m_special_end == special_at_end(text)
      m_special == special_quantity(text)
      m_start == quantity_at_start(text)
  IN  IF accepted(m_special, 2)
        THEN [quantity |-> strip(m_special.g1), name |-> strip(m_special.g2), rule |-> 3]
      ELSE IF accepted(m_start, 2)
        THEN [quantity |-> strip(m_start.g1), name |-> strip(m_start.g2), rule |-> 4]
      ELSE IF accepted(m_end, 1)
        THEN [quantity |-> strip(m_end.g2), name |-> strip(m_end.g1), rule |-> 1]
      ELSE IF accepted(m_special_end, 1)
        THEN [quantity |-> strip(m_special_end.g2), name |-> strip(m_special_end.g1),
              rule |-> 2]
      ELSE [quantity |-> <<>>, name |-> text, rule |-> 0]

\* Variant of parse_text that gives up at the first pattern that matches:
\* when its name fails the length guard the text is returned whole.
parse_text_first_match_only(text) ==
  LET whole == [quantity |-> <<>>, name |-> text, rule |-> 0]
      m_end == quantity_at_end(text)
      m_special_end == special_at_end(text)
      m_special == special_quantity(text)
      m_start == quantity_at_start(text)
  IN  IF m_end.ok
        THEN IF accepted(m_end, 1)
             THEN [quantity |-> strip(m_end.g2), name |-> strip(m_end.g1), rule |-> 1]
             ELSE whole
      ELSE IF m_special_end.ok
        THEN IF accepted(m_special_end, 1)
             THEN [quantity |-> strip(m_special_end.g2),
                   name |-> strip(m_special_end.g1), rule |-> 2]
             ELSE whole
      ELSE IF m_special.ok
        THEN IF accepted(m_special, 2)
             THEN [quantity |-> strip(m_special.g1), name |-> strip(m_special.g2),
                   rule |-> 3]
             ELSE whole
      ELSE IF accepted(m_start, 2)
        THEN [quantity |-> strip(m_start.g1), name |-> strip(m_start.g2), rule |-> 4]
      ELSE whole

\* The cascade over the stripped, non-empty text: the returned fields and the
\* number of the pattern that produced them (0: the fallback).
parse_text(text) ==
  LET m_end == quantity_at_end(text)
      m_special_end == special_at_end(text)
      m_special == special_quantity(text)
      m_start == quantity_at_start(text)
  IN  IF accepted(m_end, 1)
        THEN [quantity |-> strip(m_end.g2), name |-> strip(m_end.g1), rule |-> 1]
      ELSE IF accepted(m_special_end, 1)
        THEN [quantity |-> strip(m_special_end.g2), name |-> strip(m_special_end.g1),
              rule |-> 2]
      ELSE IF accepted(m_special, 2)
        THEN [quantity |-> strip(m_special.g1), name |-> strip(m_special.g2), rule |-> 3]
      ELSE IF accepted(m_start, 2)
        THEN [quantity |-> strip(m_start.g1), name |-> strip(m_start.g2), rule |-> 4]
      ELSE [quantity |-> <<>>, name |-> text, rule |-> 0]

\* Number of the pattern parse_ingredient takes for its argument (0: none).
matched_rule(x) ==
  IF falsy(x) \/ x.type # "str" \/ strip(x.s) = <<>> THEN 0
  ELSE parse_text(strip(x.s)).rule

\* Variant of parse_ingredient that does not strip its argument.
parse_ingredient_unstripped(x) ==
  IF falsy(x) \/ x.type # "str" THEN empty_ingredient
  ELSE LET r == parse_text(x.s)
       IN  [quantity |-> r.quantity, name |-> r.name]

parse_ingredient(x) ==
  IF falsy(x) \/ x.type # "str" THEN empty_ingredient
  ELSE LET text == strip(x.s)
       IN  IF text = <<>> THEN empty_ingredient
           ELSE LET r == parse_text(text)
                IN  [quantity |-> r.quantity, name |-> r.name]

----------------------------------------------------------------------------
(* Arguments given to parse_ingredient *)

\* Most words of a generated ingredient line.
MaxWords == 3

\* Words of generated lines: a numeral, a unit, the connective in two letter
\* cases, short and long names, a numeral joined to its unit, a special marker.
vocabulary ==
  {<<"2">>, <<"g">>, <<"d", "i">>, <<"D", "i">>, <<"x">>, <<"a", "b">>,
   <<"a", "b", "c">>, <<"2", "g">>, <<"q", ".", "b", ".">>}

separators == {<<" ">>, <<"\n">>}

\* Lines of exactly n words, consecutive words joined by one separator.
RECURSIVE lines_of(_)
lines_of(n) ==
  IF n = 1 THEN vocabulary
  ELSE {l \o s \o w : l \in lines_of(n - 1), s \in separators, w \in vocabulary}

generated_lines == UNION {lines_of(n) : n \in 1..MaxWords}

paddings == {<<>>, <<" ">>, <<"\t", "\n">>}

\* Short words, and nothing at all, between leading and trailing whitespace.
padded_lines ==
  {l \o w \o r : l \in paddings, r \in paddings,
                  w \in {<<>>, <<"x">>, <<"a", "b">>, <<"a", "b", "c">>, <<"2", " ", "g">>}}
ex_salt_to_taste == <<"s", "a", "l", "t", " ", "t", "o", " ", "t", "a", "s", "t", "e">>
ex_sale_qb == <<"s", "a", "l", "e", " ", "q", ".", "b", ".">>
ex_pinch_of_salt == <<"a", " ", "p", "i", "n", "c", "h", " ", "o", "f", " ", "s", "a", "l", "t">>
ex_pizzico_di_sale == <<"p", "i", "z", "z", "i", "c", "o", " ", "d", "i", " ", "s", "a", "l", "e">>
ex_mixed_number == <<"2", " ", "1", "/", "2", " ", "c", "u", "p", "s", " ", "s", "u", "g", "a", "r">>
ex_200g_flour == <<"2", "0", "0", "g", " ", "f", "l", "o", "u", "r">>
ex_flour_200_g == <<"f", "l", "o", "u", "r", " ", "2", "0", "0", " ", "g">>
ex_upper == <<"F", "a", "r", "i", "n", "a", " ", "2", "0", "0", " ", "G">>
ex_di_di == <<"2", " ", "d", "i", " ", "d", "i", " ", "x">>
ex_di_unit == <<"2", " ", "d", "i", " ", "g", " ", "a", "b", "c">>
ex_xyz == <<"x", "y", "z">>
ex_upper_connective == <<"2", "0", "0", " ", "G", " ", "D", "I", " ", "F", "a", "r", "i", "n", "a">>
example_lines ==
  {ex_salt_to_taste, ex_sale_qb, ex_pinch_of_salt, ex_pizzico_di_sale,
   ex_mixed_number, ex_200g_flour, ex_flour_200_g, ex_upper,
   ex_di_di, ex_di_unit, ex_xyz, ex_upper_connective}

ingredient_arguments ==
  {PyNone, PyInt(0), PyInt(123), PyList(<<>>), PyList(<<PyStr(ex_xyz)>>)}
    \cup {PyStr(s) : s \in generated_lines \cup padded_lines \cup example_lines}

unset == [type |-> "unset"]

----------------------------------------------------------------------------
(* parse_ingredient called on one argument, then called again on the line  *)
(* rebuilt from its result.                                                *)

\* "<quantity> <name>" when the quantity came first in the input (patterns 3
\* and 4), "<name> <quantity>" when it came last (patterns 1 and 2).
rebuilt(p, r) ==
  IF r \in {1, 2} THEN p.name \o <<" ">> \o p.quantity
  ELSE p.quantity \o <<" ">> \o p.name

InitParse ==
  /\ pc = "call"
  /\ ingredient_text \in ingredient_arguments
  /\ parsed = unset
  /\ rule = 0
  /\ reparsed = unset
  /\ yields_value = unset
  /\ yields_out = unset
  /\ request = unset
  /\ scraper = unset
  /\ response = unset
  /\ log = 0

ParseIngredient ==
  /\ pc = "call"
  /\ parsed' = parse_ingredient(ingredient_text)
  /\ rule' = matched_rule(ingredient_text)
  /\ pc' = "parsed"
  /\ UNCHANGED <<ingredient_text, reparsed, yields_value, yields_out,
                 request, scraper, response, log>>

Reparse ==
  /\ pc = "parsed"
  /\ rule # 0
  /\ reparsed' = parse_ingredient(PyStr(rebuilt(parsed, rule)))
  /\ pc' = "reparsed"
  /\ UNCHANGED <<ingredient_text, parsed, rule, yields_value, yields_out,
                 request, scraper, response, log>>

NextParse == ParseIngredient \/ Reparse

SpecParse == InitParse /\ [][NextParse]_vars

----------------------------------------------------------------------------
(* format_yields *)

\* Decimal digits of a natural number, as str() writes them.
RECURSIVE decimal(_)
decimal(n) ==
  LET d == <<"0", "1", "2", "3", "4", "5", "6", "7", "8", "9">>[(n % 10) + 1]
  IN  IF n < 10 THEN <<d>> ELSE Append(decimal(n \div 10), d)

\* str(x) of a string or an integer.
to_str(x) ==
  IF x.type = "str" THEN x.s
  ELSE IF x.v < 0 THEN <<"-">> \o decimal(0 - x.v)
  ELSE decimal(x.v)

\* Variant of first_number with re.match in place of re.search: only digits
\* at the very start of the text are found.
first_number_at_start(text) == SubSeq(text, 1, run(text, 1, digit))

\* re.search(r'(\d+)', text): the leftmost digit of the text, followed by
\* every digit adjacent to it; <<>> when the text holds no digit.
first_number(text) ==
  LET D == {i \in 1..Len(text) : text[i] \in digit}
  IN  IF D = {} THEN <<>>
      ELSE SubSeq(text, Min(D), Min(D) + run(text, Min(D), digit) - 1)

format_yields(x) ==
  IF falsy(x) \/ x = NA THEN NA
  ELSE LET text == strip(to_str(x))
       IN  IF first_number(text) # <<>> THEN PyStr(first_number(text)) ELSE NA

\* Longest generated yield text, and largest integer given as a yield.
MaxYieldLen == 3

MaxYieldInt == 12

yield_chars == {"1", "4", "s", " "}

RECURSIVE yield_texts(_)
yield_texts(n) ==
  IF n = 0 THEN {<<>>}
  ELSE yield_texts(n - 1)
         \cup {Append(t, c) : t \in {t \in yield_texts(n - 1) : Len(t) = n - 1}, c \in yield_chars}

ex_4_servings == <<"4", " ", "s", "e", "r", "v", "i", "n", "g", "s">>

ex_serves_many == <<"s", "e", "r", "v", "e", "s", " ", "m", "a", "n", "y">>

ex_makes_12_to_16 == <<"m", "a", "k", "e", "s", " ", "1", "2", "-", "1", "6">>

yield_arguments ==
  {PyNone, NA}
    \cup {PyInt(n) : n \in (0 - MaxYieldInt)..MaxYieldInt}
    \cup {PyStr(t) : t \in yield_texts(MaxYieldLen)
                            \cup {ex_4_servings, ex_serves_many, ex_makes_12_to_16, <<"6">>}}

InitYields ==
  /\ pc = "call"
  /\ yields_value \in yield_arguments
  /\ yields_out = unset
  /\ ingredient_text = unset
  /\ parsed = unset
  /\ rule = 0
  /\ reparsed = unset
  /\ request = unset
  /\ scraper = unset
  /\ response = unset
  /\ log = 0

FormatYields ==
  /\ pc = "call"
  /\ yields_out' = format_yields(yields_value)
  /\ pc' = "formatted"
  /\ UNCHANGED <<ingredient_text, parsed, rule, reparsed, yields_value,
                 request, scraper, response, log>>

NextYields == FormatYields

SpecYields == InitYields /\ [][NextYields]_vars

----------------------------------------------------------------------------
(* safe_call and the /scrape handler *)

\* What calling a function does: it returns a value or raises an exception.
returns(v) == [kind |-> "return", value |-> v]

raises(e) == [kind |-> "raise", exc |-> e]

\* The scraper has no such attribute: getattr falls back on its default.
missing == [kind |-> "missing"]

\* Exception classes an accessor of the library may raise; "ValueError"
\* stands for every other subclass of Exception.
exceptions == {"NotImplementedError", "AttributeError", "SchemaOrgException", "ValueError"}

\* Classes named by the first except clause of safe_call.
expected_exceptions == {"NotImplementedError", "AttributeError", "SchemaOrgException"}

\* Variant of safe_call without its last except clause: an exception of
\* another class leaves the call.
safe_call_expected_only(method) ==
  IF method.kind = "return" THEN method
  ELSE IF method.exc \in expected_exceptions THEN returns(NA)
  ELSE method

\* safe_call(method): what the call does, given what method() does.
safe_call(method) ==
  IF method.kind = "return" THEN method
  ELSE IF method.exc \in expected_exceptions THEN returns(NA)
  ELSE returns(NA)

\* Records safe_call writes with logging.error.
safe_call_logged(method) ==
  IF method.kind = "raise" /\ method.exc \notin expected_exceptions THEN 1 ELSE 0

\* getattr(scraper, f, lambda: "N/A"): the accessor handed to safe_call.
accessor(s, f) == IF s.fields[f].kind = "missing" THEN returns(NA) ELSE s.fields[f]

\* Fields of the response that are the bare result of safe_call.
plain_fields ==
  {"image", "title", "cook_time", "prep_time", "total_time", "instructions",
   "author", "category", "cuisine", "description"}

fields == plain_fields \cup {"ingredients", "yields"}

\* Variant of parse_all that inserts each result at the front of the list.
RECURSIVE parse_all_reversed(_)
parse_all_reversed(raw) ==
  IF raw = <<>> THEN <<>>
  ELSE parse_all_reversed(Tail(raw)) \o <<parse_ingredient(Head(raw))>>

\* The loop over raw_ingredients: one parse_ingredient per element, appended
\* in order.
RECURSIVE parse_all(_)
parse_all(raw) ==
  IF raw = <<>> THEN <<>>
  ELSE <<parse_ingredient(Head(raw))>> \o parse_all(Tail(raw))

\* parsed_ingredients as the handler builds it from safe_call's result.
parsed_ingredients(raw_ingredients) ==
  IF raw_ingredients # NA /\ raw_ingredients.type = "list"
  THEN parse_all(raw_ingredients.items)
  ELSE <<>>

\* require_api_key, for a request to /scrape: the 403 response, or "pass".
require_api_key(req) ==
  IF ~req.key_ok THEN [status |-> 403, error |-> "Unauthorized"] ELSE [status |-> 0]

\* scrape_recipe: the response to an authorised request.
scrape_recipe(req, s) ==
  IF req.url = "" THEN [status |-> 400, error |-> "Missing URL parameter"]
  ELSE IF s.scrape_me.kind = "raise"
    THEN [status |-> 500, error |-> s.scrape_me.exc, url |-> req.url]
  ELSE LET call == [f \in fields |-> safe_call(accessor(s, f))]
       IN  IF \E f \in fields : call[f].kind = "raise"
             THEN [status |-> 500, error |-> "Internal Server Error"]
           ELSE [status |-> 200,
                 title |-> call["title"].value,
                 cook_time |-> call["cook_time"].value,
                 prep_time |-> call["prep_time"].value,
                 total_time |-> call["total_time"].value,
                 yields |-> format_yields(call["yields"].value),
                 ingredients |-> parsed_ingredients(call["ingredients"].value),
                 instructions |-> call["instructions"].value,
                 url |-> req.url,
                 fetched_at |-> "now",
                 author |-> call["author"].value,
                 category |-> call["category"].value,
                 cuisine |-> call["cuisine"].value,
                 description |-> call["description"].value,
                 image |-> call["image"].value]

\* Records written to the log while the request is served.
records_logged(req, s) ==
  IF ~req.key_ok THEN 1
  ELSE IF req.url = "" THEN 0
  ELSE IF s.scrape_me.kind = "raise" THEN 1
  ELSE Cardinality({f \in fields : safe_call_logged(accessor(s, f)) = 1})

\* Longest ingredient list the library returns.
MaxIngredients == 2

raw_items ==
  {PyStr(<<"2", " ", "g", " ", "a", "b", "c">>), PyStr(ex_sale_qb), PyNone}

RECURSIVE raw_lists(_)
raw_lists(n) ==
  IF n = 0 THEN {<<>>}
  ELSE raw_lists(n - 1)
         \cup {Append(l, i) : l \in {l \in raw_lists(n - 1) : Len(l) = n - 1}, i \in raw_items}

failures == {missing} \cup {raises(e) : e \in exceptions}

ingredients_outcomes ==
  {returns(PyList(l)) : l \in raw_lists(MaxIngredients)}
    \cup {returns(v) : v \in {PyStr(ex_sale_qb), PyNone, NA}}
    \cup failures

yields_outcomes ==
  {returns(PyStr(ex_4_servings)), returns(PyInt(6)), returns(PyStr(ex_serves_many))}
    \cup failures

\* The plain accessors that fail in one request: none, one of them, or all.
failing_sets == {{}, plain_fields} \cup {{f} : f \in plain_fields}

\* Scrapers whose page was fetched: the plain accessors of F fail, all in
\* the same way; the others return a text.
working_scrapers ==
  {[scrape_me |-> returns("scraper"),
    fields |-> [f \in fields |->
                  IF f = "ingredients" THEN i
                  ELSE IF f = "yields" THEN y
                  ELSE IF f \in F THEN o
                  ELSE returns(PyStr(<<"v">>))]] :
     i \in ingredients_outcomes, y \in yields_outcomes, o \in failures,
     F \in failing_sets}

\* A scraper whose construction fails (the page cannot be fetched).
broken_scraper ==
  [scrape_me |-> raises("ValueError"),
   fields |-> [f \in fields |-> returns(PyStr(<<"v">>))]]

requests == [key_ok : BOOLEAN, url : {"", "http://site/recipe"}]

\* Every request meets the broken scraper; the authorised request that names
\* a page meets every working scraper as well.
Init ==
  /\ pc = "request"
  /\ request \in requests
  /\ scraper \in {broken_scraper}
                  \cup (IF request.key_ok /\ request.url # "" THEN working_scrapers ELSE {})
  /\ response = unset
  /\ log = 0
  /\ ingredient_text = unset
  /\ parsed = unset
  /\ rule = 0
  /\ reparsed = unset
  /\ yields_value = unset
  /\ yields_out = unset

\* GET /scrape: the before_request hook, then the handler.
ScrapeRequest ==
  /\ pc = "request"
  /\ response' =
       IF require_api_key(request).status = 403 THEN require_api_key(request)
       ELSE scrape_recipe(request, scraper)
  /\ log' = log + records_logged(request, scraper)
  /\ pc' = "responded"
  /\ UNCHANGED <<ingredient_text, parsed, rule, reparsed, yields_value, yields_out,
                 request, scraper>>

Next == ScrapeRequest

Spec == Init /\ [][Next]_vars

----------------------------------------------------------------------------
(* Properties of parse_ingredient (checked under SpecParse) *)

\* The argument is a string made of whitespace only (possibly empty).
blank(x) == x.type = "str" /\ \A i \in 1..Len(x.s) : x.s[i] \in whitespace

\* s without any of its whitespace characters.
squeeze(s) ==
  LET visible(c) == c \notin whitespace
  IN  SelectSeq(s, visible)

lit_salt == <<"s", "a", "l", "t">>

lit_sale == <<"s", "a", "l", "e">>

lit_qb == <<"q", ".", "b", ".">>

lit_pizzico == <<"p", "i", "z", "z", "i", "c", "o">>

\* C1: parse_ingredient returns {quantity: "", name: ""} for every argument
\* that is not a string, for the empty string and for every string that is
\* empty once its whitespace is trimmed.
C1_EmptyForNonTextOrBlank ==
  (pc # "call" /\ (ingredient_text.type # "str" \/ blank(ingredient_text)))
    => parsed = empty_ingredient

\* C1 witness: a non-empty string of whitespace has been parsed to the empty
\* structure.
C1_Witness ==
  /\ pc = "parsed"
  /\ blank(ingredient_text)
  /\ Len(ingredient_text.s) = 2
  /\ parsed = empty_ingredient

\* C2 as stated: a returned name that is non-empty is shorter than 3
\* characters only when the whole input string is shorter than 3 characters.
C2_ShortNameOnlyForShortInput ==
  (pc # "call" /\ parsed.name # <<>> /\ Len(parsed.name) < 3)
    => (ingredient_text.type = "str" /\ Len(ingredient_text.s) < 3)

\* C2 amended: a returned name that is non-empty is shorter than 3 characters
\* only when the input string, once trimmed, is shorter than 3 characters
\* (and the name is then that trimmed string).
C2_ShortNameOnlyForShortTrimmedInput ==
  (pc # "call" /\ parsed.name # <<>> /\ Len(parsed.name) < 3)
    => /\ ingredient_text.type = "str"
       /\ Len(strip(ingredient_text.s)) < 3
       /\ parsed.name = strip(ingredient_text.s)

\* C2 witness: a name of fewer than 3 characters returned for an input of at
\* least 3 characters.
C2_Witness ==
  /\ pc = "parsed"
  /\ parsed.name # <<>>
  /\ Len(parsed.name) < 3
  /\ Len(ingredient_text.s) >= 3

C4_MixedNumberQuantity ==
  (pc = "parsed" /\ ingredient_text = PyStr(ex_mixed_number))
    => parsed = [quantity |-> <<"2", " ", "1", "/", "2", " ", "c", "u", "p", "s">>,
                 name |-> <<"s", "u", "g", "a", "r">>]

\* C5 as stated: when a pattern matched, quantity and name, in the order of
\* the original text, hold every non-whitespace character of the trimmed input.
C5_NoCharacterDropped ==
  (pc = "parsed" /\ parsed.quantity # <<>>) =>
    LET t == squeeze(strip(ingredient_text.s))
    IN  IF rule \in {1, 2}
        THEN t = squeeze(parsed.name) \o squeeze(parsed.quantity)
        ELSE t = squeeze(parsed.quantity) \o squeeze(parsed.name)

\* C5 amended: when a pattern matched, quantity and name, in the order of the
\* original text, hold every non-whitespace character of the trimmed input,
\* except that the two start patterns drop one connective "di" (in any letter
\* case) standing between the quantity and the name.
C5_OnlyConnectiveDropped ==
  (pc = "parsed" /\ parsed.quantity # <<>>) =>
    LET t == squeeze(strip(ingredient_text.s))
        q == squeeze(parsed.quantity)
        n == squeeze(parsed.name)
    IN  IF rule \in {1, 2} THEN t = n \o q
        ELSE /\ Len(t) >= Len(q) + Len(n)
             /\ SubSeq(t, 1, Len(q)) = q
             /\ SubSeq(t, Len(t) - Len(n) + 1, Len(t)) = n
             /\ casefold(SubSeq(t, Len(q) + 1, Len(t) - Len(n))) \in {<<>>, <<"d", "i">>}

\* C5 witness: a start pattern matched and the connective was dropped.
C5_Witness ==
  /\ pc = "parsed"
  /\ rule \in {3, 4}
  /\ Len(squeeze(strip(ingredient_text.s)))
       = Len(squeeze(parsed.quantity)) + Len(squeeze(parsed.name)) + 2

\* The trimmed input is the quantity, then whitespace without a line feed,
\* then the name: nothing was skipped between the two.
plain_gap ==
  LET t == strip(ingredient_text.s)
      q == parsed.quantity
      n == parsed.name
  IN  /\ Len(t) > Len(q) + Len(n)
      /\ SubSeq(t, 1, Len(q)) = q
      /\ SubSeq(t, Len(t) - Len(n) + 1, Len(t)) = n
      /\ \A i \in (Len(q) + 1)..(Len(t) - Len(n)) : t[i] \in whitespace \ {"\n"}

C9_FirstAcceptedPatternWins ==
  (pc = "parsed" /\ ingredient_text.type = "str" /\ ~blank(ingredient_text)) =>
    LET text == strip(ingredient_text.s)
        m1 == quantity_at_end(text)
        m2 == special_at_end(text)
        m3 == special_quantity(text)
        m4 == quantity_at_start(text)
        end_split(m) == [quantity |-> strip(m.g2), name |-> strip(m.g1)]
        start_split(m) == [quantity |-> strip(m.g1), name |-> strip(m.g2)]
        long(m, g) == m.ok /\ Len(strip(IF g = 1 THEN m.g1 ELSE m.g2)) > 2
    IN  /\ parsed.quantity # <<>> => Len(parsed.name) > 2
        /\ long(m1, 1) => parsed = end_split(m1)
        /\ (~long(m1, 1) /\ long(m2, 1)) => parsed = end_split(m2)
        /\ (~long(m1, 1) /\ ~long(m2, 1) /\ long(m3, 2)) => parsed = start_split(m3)
        /\ (~long(m1, 1) /\ ~long(m2, 1) /\ ~long(m3, 2) /\ long(m4, 2))
             => parsed = start_split(m4)
        /\ (~long(m1, 1) /\ ~long(m2, 1) /\ ~long(m3, 2) /\ ~long(m4, 2))
             => parsed = [quantity |-> <<>>, name |-> text]

\* C9 witness: the numeral-at-end pattern matched with a name too short, and
\* the unit-at-start pattern, tried later, gave the result.
C9_Witness ==
  /\ pc = "parsed"
  /\ ingredient_text.type = "str"
  /\ quantity_at_end(strip(ingredient_text.s)).ok
  /\ rule = 3

----------------------------------------------------------------------------
(* Property of format_yields (checked under SpecYields) *)

\* C7: format_yields returns "N/A" for an empty or falsy argument and for
\* "N/A"; otherwise it returns the first maximal run of decimal digits of the
\* argument's text, and "N/A" when the text holds no digit.  The result is
\* always "N/A" or a non-empty string of digits.
C7_FirstDigitRunOrNA ==
  pc = "formatted" =>
    LET x == yields_value
        r == yields_out
    IN  /\ r = NA \/ (r.type = "str" /\ r.s # <<>> /\ \A i \in 1..Len(r.s) : r.s[i] \in digit)
        /\ (falsy(x) \/ x = NA) => r = NA
        /\ ~(falsy(x) \/ x = NA) =>
             LET t == to_str(x)
             IN  IF \A i \in 1..Len(t) : t[i] \notin digit THEN r = NA
                 ELSE \E i \in 1..Len(t) :
                        /\ \A j \in 1..(i - 1) : t[j] \notin digit
                        /\ i + Len(r.s) - 1 <= Len(t)
                        /\ SubSeq(t, i, i + Len(r.s) - 1) = r.s
                        /\ r # NA
                        /\ (i + Len(r.s) <= Len(t) => t[i + Len(r.s)] \notin digit)

\* C7 witness: a digit run that is not at the start of the text, and is
\* followed by another run, has been extracted.
C7_Witness ==
  /\ pc = "formatted"
  /\ yields_value = PyStr(ex_makes_12_to_16)
  /\ yields_out = PyStr(<<"1", "2">>)

----------------------------------------------------------------------------
(* Properties of the /scrape handler (checked under Spec) *)

\* The request is authorised, names a page, and the page was scraped.
served == pc = "responded" /\ request.key_ok /\ request.url # "" /\ scraper.scrape_me.kind = "return"

\* C8: when the library returns a list of raw ingredients, the response's
\* "ingredients" has the same length and its i-th element is parse_ingredient
\* of the i-th raw ingredient; when the library returns anything else, or
\* fails, "ingredients" is the empty list.
C8_IngredientsParsedInOrder ==
  served =>
    LET o == scraper.fields["ingredients"]
    IN  /\ response.status = 200
        /\ IF o.kind = "return" /\ o.value.type = "list"
           THEN /\ Len(response.ingredients) = Len(o.value.items)
                /\ \A i \in 1..Len(o.value.items) :
                     response.ingredients[i] = parse_ingredient(o.value.items[i])
           ELSE response.ingredients = <<>>

\* C8 witness: a list of two raw ingredients that parse differently has been
\* served.
C8_Witness ==
  /\ served
  /\ scraper.fields["ingredients"].kind = "return"
  /\ Len(response.ingredients) = 2
  /\ response.ingredients[1] # response.ingredients[2]

\* The accessor of field f raised an exception.
raised(f) == scraper.fields[f].kind = "raise"

\* C10 as stated: safe_call never lets a failure of the accessor out, so the
\* response is not an error, and every field whose accessor failed is "N/A".
C10_FailedFieldIsNA ==
  served =>
    /\ response.status = 200
    /\ \A f \in fields : raised(f) => response[f] = NA

\* C10 amended: safe_call returns the accessor's value unchanged, and "N/A"
\* when it raises any Exception, logging only for classes other than the three
\* it names; so a failed accessor does not make the response an error and
\* leaves its field as "N/A", except "ingredients", which is left as the empty
\* list.
C10_FailedFieldIsNAOrEmptyList ==
  served =>
    /\ response.status = 200
    /\ \A f \in plain_fields :
         /\ raised(f) => response[f] = NA
         /\ scraper.fields[f].kind = "return" => response[f] = scraper.fields[f].value
    /\ raised("yields") => response.yields = NA
    /\ raised("ingredients") => response.ingredients = <<>>
    /\ log = Cardinality({f \in fields :
                            raised(f) /\ scraper.fields[f].exc \notin expected_exceptions})

\* C10 witness: an accessor raised an exception of an unnamed class, the
\* field is "N/A", the failure was logged and the response is not an error.
C10_Witness ==
  /\ served
  /\ raised("title")
  /\ scraper.fields["title"].exc = "ValueError"
  /\ response.status = 200
  /\ response.title = NA
  /\ log >= 1

====
